---- MODULE Spec2Model ----
(***************************************************************************)
(* Model of OCRProcessor (src/src/ocr_processor.py): the per-item pipeline *)
(* process_image and the batch orchestrator process_batch running it on a  *)
(* ThreadPoolExecutor.                                                     *)
(*                                                                         *)
(* A path string is a sequence of components, a component is a sequence of *)
(* string tokens (<<"s", "_temp", ".jpg">> is the name s_temp.jpg), so     *)
(* that endswith / glob / lower are computed on the name as the code does. *)
(***************************************************************************)
EXTENDS Integers, Sequences, FiniteSets, TLC

\* ------------------------------------------------------------ bounds
MaxListLen == 2
MaxWorkers == 2

\* __init__ line 16: max_workers: int = 1
DefaultWorkers == 1

\* ------------------------------------------------------------ helpers
Last(s) == s[Len(s)]

Put(f, k, v) == [x \in DOMAIN f \cup {k} |-> IF x = k THEN v ELSE f[x]]

Del(f, k) == [x \in DOMAIN f \ {k} |-> f[x]]

EmptyDict == [x \in {} |-> x]

RECURSIVE SeqsUpTo(_, _)
SeqsUpTo(S, n) ==
  IF n = 0 THEN {<<>>}
  ELSE LET shorter == SeqsUpTo(S, n - 1)
       IN shorter \cup {Append(s, x) : s \in {t \in shorter : Len(t) = n - 1}, x \in S}

\* str.endswith on one name, token by token
EndsWith(name, suffix) ==
  /\ Len(name) >= Len(suffix)
  /\ \A i \in 1..Len(suffix) : name[Len(name) - Len(suffix) + i] = suffix[i]

\* str.lower on the tokens the universe uses
LowerTok(tok) == CASE tok = ".PDF" -> ".pdf" [] tok = ".PNG" -> ".png" [] OTHER -> tok

Lower(name) == [i \in DOMAIN name |-> LowerTok(name[i])]

\* ------------------------------------------------------------ the file system universe
DirD == << <<"d">> >>
A_png == << <<"d">>, <<"a", ".png">> >>
C_txt == << <<"d">>, <<"c", ".txt">> >>
X_tiff == << <<"d">>, <<"x", ".tiff">> >>
Sub == << <<"d">>, <<"sub">> >>
E_pdf == << <<"d">>, <<"sub">>, <<"e", ".pdf">> >>
S_temp == << <<"s", "_temp", ".jpg">> >>
DotS_temp == << <<".">>, <<"s", "_temp", ".jpg">> >>
Bad_png == << <<"bad", ".png">> >>
N_pdf == << <<"n", ".PDF">> >>

\* what each entry of the universe holds when it exists
Content(p) ==
  CASE p \in {DirD, Sub, X_tiff} -> "dir"
    [] p \in {A_png, C_txt, S_temp} -> "image"
    [] p = E_pdf -> "pdf"
    [] p = N_pdf -> "pdf0"
    [] OTHER -> "corrupt"

Standalone == {DirD, Sub, S_temp, Bad_png, N_pdf}
DirEntries == {A_png, C_txt, X_tiff, E_pdf}

DiskOf(S) == [p \in S |-> Content(p)]

ListAlphabet == {DotS_temp, Bad_png}
SingleInputs == {DirD, S_temp, N_pdf}

\* ------------------------------------------------------------ pathlib
\* Path(s): pathlib drops "." components; str(Path) gives the parts back
PathOf(s) == [parts |-> SelectSeq(s, LAMBDA c : c # <<".">>)]

Str(path) == path.parts

IsDir(d, path) == Str(path) \in DOMAIN d /\ d[Str(path)] = "dir"

IsPrefix(a, b) == Len(a) <= Len(b) /\ SubSeq(b, 1, Len(a)) = a

\* Path.glob('*' + ext) / Path.glob('**/*' + ext): every entry (file or
\* directory) below base whose name ends with ext, case-sensitively
Glob(d, base, recursive, ext) ==
  {p \in DOMAIN d :
     /\ IsPrefix(Str(base), p)
     /\ IF recursive THEN Len(p) > Len(Str(base)) ELSE Len(p) = Len(Str(base)) + 1
     /\ EndsWith(Last(p), <<ext>>)}

RECURSIVE SetToSeq(_)
SetToSeq(S) ==
  IF S = {} THEN <<>>
  ELSE LET x == CHOOSE y \in S : TRUE IN <<x>> \o SetToSeq(S \ {x})

Extensions == <<".png", ".jpg", ".jpeg", ".pdf", ".tiff">>

RECURSIVE GlobAll(_, _, _, _)
GlobAll(d, base, recursive, i) ==
  IF i > Len(Extensions) THEN <<>>
  ELSE [j \in DOMAIN SetToSeq(Glob(d, base, recursive, Extensions[i])) |->
          PathOf(SetToSeq(Glob(d, base, recursive, Extensions[i]))[j])]
       \o GlobAll(d, base, recursive, i + 1)

\* process_batch lines 221-232
DiscoverPaths(d, inp, recursive) ==
  IF ~inp.isList
  THEN IF IsDir(d, PathOf(inp.paths[1]))
       THEN GlobAll(d, PathOf(inp.paths[1]), recursive, 1)
       ELSE <<PathOf(inp.paths[1])>>
  ELSE [i \in DOMAIN inp.paths |-> PathOf(inp.paths[i])]

\* ------------------------------------------------------------ state
VARIABLES
  input,        \* process_batch argument input_path: [isList, paths]
  format_type,  \* process_batch argument
  recursive,    \* process_batch argument
  preprocess,   \* process_batch argument
  max_workers,  \* OCRProcessor.max_workers
  disk,         \* the file system: existing path -> content
  disk0,        \* the file system when process_batch was called
  pc,           \* position of the thread running process_batch
  image_paths,  \* local image_paths (sequence of Path)
  futures,      \* future_to_path, in submission order: one record per future
  collected,    \* futures as_completed has yielded
  results,      \* local results dict
  errors,       \* local errors dict
  writes,       \* how many times each key of results/errors was assigned
  pbar,         \* tqdm counter
  report        \* <<>> until process_batch returns, then <<the returned dict>>

vars == <<input, format_type, recursive, preprocess, max_workers, disk, disk0, pc,
          image_paths, futures, collected, results, errors, writes, pbar, report>>

args == <<input, format_type, recursive, preprocess, max_workers, disk0>>

NoPath == <<>>
NoPayload == [from |-> NoPath, content |-> "none"]
NoValue == [err |-> FALSE, msg |-> "", img |-> NoPath]

Responses == {"ok_json", "ok_plain", "http_error", "unreachable", "bad_body"}
TempTails == {"rnd", "_temp"}
Formats == {"json", "markdown"}

\* ------------------------------------------------------------ process_image, stage by stage
\* tempfile.NamedTemporaryFile(suffix=".jpg", delete=False).name: "tmp" + random
\* characters + ".jpg"; the random part may or may not end in "_temp"
TempPath(k, role, tail) == << <<"tmp">>, <<"tmp", ToString(k), role, tail, ".jpg">> >>

\* _read_image: open + cv2.imdecode; raises unless the bytes decode
ReadImageOk(d, p) == p \in DOMAIN d /\ d[p] \in {"image", "page", "enhanced"}

\* _encode_image: open(image_path, "rb") raises on a missing path or a directory
OpenOk(d, p) == p \in DOMAIN d /\ d[p] # "dir"

\* _preprocess_image: render a PDF's first page to a temp file, read and
\* enhance the image, save the result to a second temp file
PreprocessImage(d, src, k, enhanceOk, tail) ==
  LET isPdf == EndsWith(Lower(Last(src)), <<".pdf">>)
      rendered == isPdf /\ src \in DOMAIN d /\ d[src] = "pdf"
      pagePath == TempPath(k, "page", "rnd")
      d1 == IF rendered THEN Put(d, pagePath, "page") ELSE d
      made1 == IF rendered THEN {pagePath} ELSE {}
      toRead == IF rendered THEN pagePath ELSE src
      prePath == TempPath(k, "pre", tail)
  IN IF ~((isPdf => rendered) /\ ReadImageOk(d1, toRead))
     THEN [ok |-> FALSE, stage |-> "normalize", path |-> toRead, disk |-> d1,
           made |-> made1, ran |-> <<"normalize">>]
     ELSE IF ~enhanceOk
     THEN [ok |-> FALSE, stage |-> "enhance", path |-> toRead, disk |-> d1,
           made |-> made1, ran |-> <<"normalize", "enhance">>]
     ELSE [ok |-> TRUE, stage |-> "none", path |-> prePath,
           disk |-> Put(d1, prePath, "enhanced"),
           made |-> made1 \cup {prePath}, ran |-> <<"normalize", "enhance">>]

\* line 107: image_path.endswith(('_preprocessed.jpg', '_temp.jpg'))
CleanupMatches(p) ==
  \/ EndsWith(Last(p), <<"_preprocessed", ".jpg">>)
  \/ EndsWith(Last(p), <<"_temp", ".jpg">>)

\* mutant of ProcessImageExcept: the handler lets the exception escape
ProcessImageExceptReraise(stage) ==
  [raised |-> TRUE, value |-> [err |-> TRUE, msg |-> stage, img |-> NoPath]]

\* lines 208-209: except Exception as e: return f"...{str(e)}"
ProcessImageExcept(stage) ==
  [raised |-> FALSE, value |-> [err |-> TRUE, msg |-> stage, img |-> NoPath]]

\* lines 194-207: post, raise_for_status, response.json().get, json post-processing
Infer(resp, fmt, payload) ==
  CASE resp = "unreachable" ->
         [failed |-> "request", jsonErr |-> FALSE, ran |-> <<"request">>,
          out |-> ProcessImageExcept("request")]
    [] resp = "http_error" ->
         [failed |-> "status", jsonErr |-> FALSE, ran |-> <<"request">>,
          out |-> ProcessImageExcept("status")]
    [] resp = "bad_body" ->
         [failed |-> "decode", jsonErr |-> FALSE, ran |-> <<"request", "decode">>,
          out |-> ProcessImageExcept("decode")]
    [] resp = "ok_json" /\ fmt = "json" ->
         [failed |-> "none", jsonErr |-> FALSE, ran |-> <<"request", "decode", "postprocess">>,
          out |-> [raised |-> FALSE,
                   value |-> [err |-> FALSE, msg |-> "indent2", img |-> payload.from]]]
    [] resp = "ok_plain" /\ fmt = "json" ->
         [failed |-> "none", jsonErr |-> TRUE, ran |-> <<"request", "decode", "postprocess">>,
          out |-> [raised |-> FALSE,
                   value |-> [err |-> FALSE, msg |-> "raw_plain", img |-> payload.from]]]
    [] OTHER ->
         [failed |-> "none", jsonErr |-> FALSE, ran |-> <<"request", "decode">>,
          out |-> [raised |-> FALSE,
                   value |-> [err |-> FALSE,
                              msg |-> IF resp = "ok_json" THEN "raw_json" ELSE "raw_plain",
                              img |-> payload.from]]]

NewFuture(path) ==
  [fpath |-> path, arg |-> Str(path), st |-> "queued", image_path |-> Str(path),
   ran |-> <<>>, made |-> {}, payload |-> NoPayload, failed |-> "none",
   jsonErr |-> FALSE, raised |-> FALSE, value |-> NoValue]

\* a task that ends in the except clause of process_image
Excepted(t, stage, ranMore) ==
  [t EXCEPT !.st = "done", !.failed = stage, !.ran = t.ran \o ranMore,
            !.raised = ProcessImageExcept(stage).raised,
            !.value = ProcessImageExcept(stage).value]

Running == {k \in DOMAIN futures : futures[k].st \notin {"queued", "done"}}

\* mutant of WorkerAvailable: a thread per work item, whatever max_workers is
WorkerAlwaysAvailable == TRUE

\* mutant of AsCompletedExhausted: the report is built without waiting
ReturnWithoutWaiting == Len(futures) = Len(image_paths)

\* ThreadPoolExecutor(max_workers): a queued work item is taken only by an idle
\* worker thread, and at most max_workers threads exist
WorkerAvailable == Cardinality(Running) < max_workers

\* as_completed has yielded every future and the executor's with-block has joined
AsCompletedExhausted == collected = DOMAIN futures /\ Len(futures) = Len(image_paths)

\* pbar.update(1)
PbarUpdate(n) == n + 1

\* ------------------------------------------------------------ Init
Inputs ==
  {[isList |-> FALSE, paths |-> <<s>>] : s \in SingleInputs}
  \cup {[isList |-> TRUE, paths |-> l] : l \in SeqsUpTo(ListAlphabet, MaxListLen)}

Init ==
  /\ input \in Inputs
  /\ format_type \in Formats
  /\ preprocess \in BOOLEAN
  /\ max_workers \in {DefaultWorkers, MaxWorkers}
  /\ recursive \in (IF input.paths = <<DirD>> THEN BOOLEAN ELSE {FALSE})
  /\ disk \in {DiskOf(Standalone \cup S) :
                 S \in (IF input.paths = <<DirD>> THEN SUBSET DirEntries ELSE {DirEntries})}
  /\ disk0 = disk
  /\ pc = "discover"
  /\ image_paths = <<>>
  /\ futures = <<>>
  /\ collected = {}
  /\ results = EmptyDict
  /\ errors = EmptyDict
  /\ writes = EmptyDict
  /\ pbar = 0
  /\ report = <<>>

\* ------------------------------------------------------------ process_batch
\* lines 221-235
Discover ==
  /\ pc = "discover"
  /\ image_paths' = DiscoverPaths(disk, input, recursive)
  /\ pc' = "submit"
  /\ UNCHANGED <<args, disk, futures, collected, results, errors, writes, pbar, report>>

\* lines 240-243: one executor.submit per element of image_paths
Submit ==
  /\ pc = "submit"
  /\ IF Len(futures) < Len(image_paths)
     THEN /\ futures' = Append(futures, NewFuture(image_paths[Len(futures) + 1]))
          /\ pc' = pc
     ELSE /\ pc' = "collect"
          /\ futures' = futures
  /\ UNCHANGED <<args, disk, image_paths, collected, results, errors, writes, pbar, report>>

\* a worker thread takes the oldest queued work item; lines 100-101
Start(k) ==
  /\ k \in DOMAIN futures
  /\ futures[k].st = "queued"
  /\ \A j \in 1..(k - 1) : futures[j].st # "queued"
  /\ WorkerAvailable
  /\ futures' = [futures EXCEPT ![k].st = IF preprocess THEN "preprocess" ELSE "encode"]
  /\ UNCHANGED <<args, disk, pc, image_paths, collected, results, errors, writes, pbar, report>>

\* line 102
Preprocess(k) ==
  /\ k \in DOMAIN futures
  /\ futures[k].st = "preprocess"
  /\ \E enhanceOk \in BOOLEAN, tail \in TempTails :
       LET t == futures[k]
           r == PreprocessImage(disk, t.image_path, k, enhanceOk, tail)
           t1 == [t EXCEPT !.made = r.made]
       IN /\ disk' = r.disk
          /\ futures' = [futures EXCEPT ![k] =
               IF r.ok
               THEN [t1 EXCEPT !.st = "encode", !.image_path = r.path, !.ran = t.ran \o r.ran]
               ELSE Excepted(t1, r.stage, r.ran)]
  /\ UNCHANGED <<args, pc, image_paths, collected, results, errors, writes, pbar, report>>

\* line 104
Encode(k) ==
  /\ k \in DOMAIN futures
  /\ futures[k].st = "encode"
  /\ LET t == futures[k]
     IN futures' = [futures EXCEPT ![k] =
          IF OpenOk(disk, t.image_path)
          THEN [t EXCEPT !.st = "cleanup", !.ran = Append(t.ran, "encode"),
                         !.payload = [from |-> t.image_path, content |-> disk[t.image_path]]]
          ELSE Excepted(t, "encode", <<"encode">>)]
  /\ UNCHANGED <<args, disk, pc, image_paths, collected, results, errors, writes, pbar, report>>

\* lines 106-207: remove the file when its name matches, then build the
\* request, post it and post-process the answer (nothing after the removal
\* touches state another thread can see)
CleanupAndRequest(k) ==
  /\ k \in DOMAIN futures
  /\ futures[k].st = "cleanup"
  /\ \E resp \in Responses :
       LET t == futures[k]
           matches == CleanupMatches(t.image_path)
           removed == matches /\ OpenOk(disk, t.image_path)
           t1 == IF matches THEN [t EXCEPT !.ran = Append(t.ran, "cleanup")] ELSE t
           r == Infer(resp, format_type, t.payload)
       IN /\ disk' = IF removed THEN Del(disk, t.image_path) ELSE disk
          /\ futures' = [futures EXCEPT ![k] =
               IF matches /\ ~removed
               THEN Excepted(t, "cleanup", <<"cleanup">>)
               ELSE [t1 EXCEPT !.st = "done", !.failed = r.failed, !.jsonErr = r.jsonErr,
                               !.ran = t1.ran \o r.ran, !.raised = r.out.raised,
                               !.value = r.out.value]]
  /\ UNCHANGED <<args, pc, image_paths, collected, results, errors, writes, pbar, report>>

\* lines 245-251: one iteration of the as_completed loop
Collect(k) ==
  /\ pc = "collect"
  /\ k \in DOMAIN futures
  /\ futures[k].st = "done"
  /\ k \notin collected
  /\ LET key == Str(futures[k].fpath)
     IN /\ IF futures[k].raised
           THEN /\ errors' = Put(errors, key, futures[k].value)
                /\ results' = results
           ELSE /\ results' = Put(results, key, futures[k].value)
                /\ errors' = errors
        /\ writes' = Put(writes, key, IF key \in DOMAIN writes THEN writes[key] + 1 ELSE 1)
  /\ collected' = collected \cup {k}
  /\ pbar' = PbarUpdate(pbar)
  /\ UNCHANGED <<args, disk, pc, image_paths, futures, report>>

\* lines 253-261
Return ==
  /\ pc = "collect"
  /\ AsCompletedExhausted
  /\ pc' = "returned"
  /\ report' = <<[results |-> results, errors |-> errors,
                  statistics |-> [total |-> Len(image_paths),
                                  successful |-> Cardinality(DOMAIN results),
                                  failed |-> Cardinality(DOMAIN errors)]]>>
  /\ UNCHANGED <<args, disk, image_paths, futures, collected, results, errors, writes, pbar>>

Next ==
  \/ Discover
  \/ Submit
  \/ \E k \in DOMAIN futures : Start(k)
  \/ \E k \in DOMAIN futures : Preprocess(k)
  \/ \E k \in DOMAIN futures : Encode(k)
  \/ \E k \in DOMAIN futures : CleanupAndRequest(k)
  \/ \E k \in DOMAIN futures : Collect(k)
  \/ Return

Spec == Init /\ [][Next]_vars

\* worker threads and the calling thread are scheduled by the operating system:
\* an enabled step is eventually taken
FairSpec == Spec /\ WF_vars(Next)

\* ------------------------------------------------------------ claims
Range(f) == {f[x] : x \in DOMAIN f}

Key(k) == Str(futures[k].fpath)

Done(k) == futures[k].st = "done"

ItemFailed(k) == futures[k].failed # "none"

Returned == pc = "returned"

\* C1: at return every discovered path's key is in exactly one of results and
\* errors, every key was written by exactly one task, and
\* successful + failed = total = number of discovered paths.
C1_Accounting ==
  Returned =>
    /\ \A i \in DOMAIN image_paths :
         (Str(image_paths[i]) \in DOMAIN report[1].results)
           # (Str(image_paths[i]) \in DOMAIN report[1].errors)
    /\ \A key \in DOMAIN writes : writes[key] = 1
    /\ report[1].statistics.successful + report[1].statistics.failed
         = report[1].statistics.total
    /\ report[1].statistics.total = Len(image_paths)

\* C2: at return every item whose pipeline failed is under its path in errors
\* and not in results, and is counted in statistics.failed; if every item
\* failed then successful = 0.
C2_FailuresInErrors ==
  Returned =>
    /\ \A k \in DOMAIN futures :
         ItemFailed(k) => /\ Key(k) \in DOMAIN report[1].errors
                          /\ Key(k) \notin DOMAIN report[1].results
    /\ report[1].statistics.failed >= Cardinality({Key(k) : k \in {j \in DOMAIN futures : ItemFailed(j)}})
    /\ (\A k \in DOMAIN futures : ItemFailed(k)) => report[1].statistics.successful = 0

\* raise_for_status (failure "status") is part of the request stage
StageOf(failed) == IF failed = "status" THEN "request" ELSE failed

\* C3 as stated: process_image never raises; a failure at any stage, JSON
\* post-processing included, ends the call with a failure-describing string,
\* and the failing stage is the last one that ran.
C3_FailureString ==
  \A k \in DOMAIN futures :
    Done(k) =>
      /\ ~futures[k].raised
      /\ (ItemFailed(k) \/ futures[k].jsonErr) => futures[k].value.err
      /\ ItemFailed(k) => Last(futures[k].ran) = StageOf(futures[k].failed)

\* C3 amended: process_image never raises; a failure at any stage other than
\* the JSON parse of the model's text ends the call with a failure-describing
\* string and the failing stage is the last one that ran; a JSON parse failure
\* returns the model's raw text; a call with no failure returns text.
C3_FailureStringExceptJson ==
  \A k \in DOMAIN futures :
    Done(k) =>
      /\ ~futures[k].raised
      /\ ItemFailed(k) => /\ futures[k].value.err
                          /\ futures[k].value.msg = futures[k].failed
                          /\ Last(futures[k].ran) = StageOf(futures[k].failed)
      /\ futures[k].jsonErr => /\ ~futures[k].value.err
                               /\ futures[k].value.msg = "raw_plain"
                               /\ Last(futures[k].ran) = "postprocess"
      /\ ~ItemFailed(k) => ~futures[k].value.err

C3_Witness ==
  /\ \E k \in DOMAIN futures : Done(k) /\ futures[k].failed = "normalize"
  /\ \E k \in DOMAIN futures : Done(k) /\ futures[k].failed = "status" /\ futures[k].value.err
  /\ \E k \in DOMAIN futures : Done(k) /\ futures[k].jsonErr

\* C4: at return every discovered path had its own invocation and it ran to
\* completion, and what is recorded for a non-failing item is the outcome of a
\* non-failing invocation of that path, whatever its siblings did.
C4_SiblingIndependence ==
  Returned =>
    /\ Len(futures) = Len(image_paths)
    /\ \A k \in DOMAIN futures :
         /\ Done(k)
         /\ futures[k].fpath = image_paths[k]
         /\ ~ItemFailed(k) =>
              /\ Key(k) \in DOMAIN report[1].results
              /\ report[1].results[Key(k)]
                   \in {futures[j].value :
                          j \in {i \in DOMAIN futures : Key(i) = Key(k) /\ ~ItemFailed(i)}}

\* C5: when a process_image call has returned, no temporary file it created
\* is left on disk.
C5_TempsRemoved ==
  \A k \in DOMAIN futures :
    Done(k) => \A p \in futures[k].made : p \notin DOMAIN disk

\* C6: one invocation is submitted per discovered path, in order, and at no
\* time do more than max_workers invocations execute (so one at a time when
\* max_workers = 1).
C6_BoundedPool ==
  /\ Cardinality(Running) <= max_workers
  /\ max_workers = DefaultWorkers => Cardinality(Running) <= 1
  /\ Len(futures) <= Len(image_paths)
  /\ \A k \in DOMAIN futures : futures[k].fpath = image_paths[k]
  /\ pc \in {"collect", "returned"} => Len(futures) = Len(image_paths)

C6_Witness ==
  /\ max_workers = MaxWorkers
  /\ Cardinality(Running) = max_workers
  /\ \E k \in DOMAIN futures : futures[k].st = "queued"

\* C7: a report exists only once process_batch has returned, and then every
\* submitted invocation has completed and been recorded and the progress
\* counter equals total; the counter advances by exactly one per collected
\* item; and process_batch eventually returns.
C7_Completion ==
  /\ [](report # <<>> => Returned)
  /\ [](Returned =>
          /\ report # <<>>
          /\ Len(futures) = Len(image_paths)
          /\ \A k \in DOMAIN futures :
               /\ Done(k)
               /\ k \in collected
               /\ Key(k) \in DOMAIN report[1].results \cup DOMAIN report[1].errors
          /\ pbar = report[1].statistics.total)
  /\ [][pbar' = pbar + Cardinality(collected' \ collected)]_vars
  /\ [](pbar = Cardinality(collected))
  /\ <>Returned

C7_Witness ==
  /\ Returned
  /\ pbar >= MaxListLen
  /\ \E k \in DOMAIN futures : ItemFailed(k)
  /\ \E k \in DOMAIN futures : ~ItemFailed(k)

SupportedExt == {".png", ".jpg", ".jpeg", ".pdf", ".tiff"}

\* C8: for a directory the discovered paths are exactly the files with a
\* supported extension, from the directory itself or (recursive) from it and
\* its subdirectories, none twice; otherwise they are the given paths; no
\* match gives an all-zero report with empty mappings.
C8_Discovery ==
  /\ pc # "discover" =>
       IF ~input.isList /\ input.paths[1] \in DOMAIN disk0 /\ disk0[input.paths[1]] = "dir"
       THEN /\ Range(image_paths) =
                 {PathOf(p) : p \in {q \in DOMAIN disk0 :
                    /\ disk0[q] # "dir"
                    /\ Last(Last(q)) \in SupportedExt
                    /\ IsPrefix(input.paths[1], q)
                    /\ IF recursive THEN Len(q) > Len(input.paths[1])
                                    ELSE Len(q) = Len(input.paths[1]) + 1}}
            /\ Cardinality(Range(image_paths)) = Len(image_paths)
       ELSE image_paths = [i \in DOMAIN input.paths |-> PathOf(input.paths[i])]
  /\ (Returned /\ image_paths = <<>>) =>
       /\ report[1].statistics = [total |-> 0, successful |-> 0, failed |-> 0]
       /\ report[1].results = EmptyDict
       /\ report[1].errors = EmptyDict

\* C9: whatever the preprocess flag, normalisation runs before encoding: what
\* is encoded is never the source file itself, and no request is sent for a
\* source that does not decode.
C9_NormalizeBeforeEncode ==
  \A k \in DOMAIN futures :
    /\ futures[k].payload # NoPayload =>
         /\ futures[k].ran[1] = "normalize"
         /\ futures[k].payload.from # futures[k].arg
    /\ "request" \in Range(futures[k].ran) =>
         /\ futures[k].arg \in DOMAIN disk0
         /\ disk0[futures[k].arg] \in {"image", "pdf"}

\* C10: the source files are never deleted or modified: every file present
\* when the call started is still there with the same content.
C10_SourceUntouched ==
  \A p \in DOMAIN disk0 : p \in DOMAIN disk /\ disk[p] = disk0[p]

====
